---- MODULE Spec2Model ----
(***************************************************************************)
(* Reminder scheduling of bbot.py: the /set_timezone and /rm commands, the *)
(* recurring check_reminders job, the two JSON files they share, and the   *)
(* asyncio interleaving between them (a coroutine yields only at await).   *)
(*                                                                         *)
(* Time is counted in units of 60/UnitsPerMinute seconds since the Unix    *)
(* epoch.  The "time" string of a stored reminder (datetime.isoformat of a *)
(* UTC datetime with zero seconds) is the tuple <<year, month, day, hour,  *)
(* minute>>.  The field id of a stored reminder is a history field: the    *)
(* code never reads it, it only lets the properties follow one entry.      *)
(***************************************************************************)
EXTENDS Integers, Sequences, FiniteSets, TLC

\* ---------------------------------------------------------------- bounds
UnitsPerMinute == 1
MaxClock == 3
MaxIds == 3
MaxCount == 2

\* ------------------------------------------------------------- constants
IntervalMinutes == 1
EpochOrdinal == 719163

None == 0
Users == {1, 2}
Messages == {"water the plants"}
AllTimezones == {"UTC", "America/Los_Angeles"}
TimezoneInputs == AllTimezones \cup {"Mars/Olympus"}
\* the users who send /set_timezone
TzUsers == {1}
Years == {2024}
Months == {2}
Days == {29, 30}
Hours == {15, 23}
Minutes == {59}
\* the user1, user2, user3 arguments of the /rm requests
\* the dates of the calendar check: leap and common years, a century year of
\* each kind, every month, and the days from the 28th on
DateYears == {2024, 2025, 2100, 2400}
DateMonths == 1..12
DateDays == 28..31
DateHours == {15}
TargetArgs == {<<1, None, None>>, <<2, None, 1>>, <<1, 1, 2>>}
\* the interval jobs added by on_ready: the first and one after a reconnect
Jobs == {1, 2}
Outcomes == {"Ok", "NotFound", "HTTPException"}

\* str(interaction.user.id)
StrId(u) == IF u = 1 THEN "1" ELSE "2"

\* interaction.user.display_name
DisplayName(u) == IF u = 1 THEN "alice" ELSE "bob"

\* --------------------------------------------------- calendar arithmetic
\* variant of IsLeap without the century rule
IsLeapJulian(y) == y % 4 = 0

IsLeap(y) == y % 4 = 0 /\ (y % 100 # 0 \/ y % 400 = 0)

DaysInMonth(y, m) ==
  IF m = 2 THEN (IF IsLeap(y) THEN 29 ELSE 28)
  ELSE IF m \in {4, 6, 9, 11} THEN 30 ELSE 31

DaysBeforeYear(y) ==
  (y - 1) * 365 + (y - 1) \div 4 - (y - 1) \div 100 + (y - 1) \div 400

RECURSIVE DaysBeforeMonth(_, _)
DaysBeforeMonth(y, m) ==
  IF m = 1 THEN 0 ELSE DaysBeforeMonth(y, m - 1) + DaysInMonth(y, m - 1)

\* date.toordinal
YmdToOrd(y, m, d) == DaysBeforeYear(y) + DaysBeforeMonth(y, m) + d

\* date.fromordinal, as <<year, month, day>>
OrdToYmd(ord) ==
  LET n0 == ord - 1
      n400 == n0 \div 146097
      r400 == n0 % 146097
      n100 == r400 \div 36524
      r100 == r400 % 36524
      n4 == r100 \div 1461
      r4 == r100 % 1461
      n1 == r4 \div 365
      n == r4 % 365
      year == n400 * 400 + 1 + n100 * 100 + n4 * 4 + n1
  IN IF n1 = 4 \/ n100 = 4 THEN <<year - 1, 12, 31>>
     ELSE LET month == CHOOSE m \in 1..12 :
                         /\ DaysBeforeMonth(year, m) <= n
                         /\ n < DaysBeforeMonth(year, m) + DaysInMonth(year, m)
          IN <<year, month, n - DaysBeforeMonth(year, month) + 1>>

\* datetime(year, month, day, hour, minute) raises ValueError
ValidDate(y, m, d, h, mi) ==
  /\ y \in 1..9999 /\ m \in 1..12
  /\ d \in 1..DaysInMonth(y, m)
  /\ h \in 0..23 /\ mi \in 0..59

\* minutes from the Unix epoch to a wall-clock reading taken as if in UTC
WallMinutes(y, m, d, h, mi) ==
  (YmdToOrd(y, m, d) - EpochOrdinal) * 1440 + h * 60 + mi

\* weekday of an ordinal, Monday = 0
Weekday(ord) == (ord + 6) % 7

\* day of month of the k-th Sunday of month m of year y
NthSunday(y, m, k) ==
  LET first == CHOOSE d \in 1..7 : Weekday(YmdToOrd(y, m, d)) = 6
  IN first + 7 * (k - 1)

\* pytz: UTC offset in minutes that tz.localize (is_dst=False) gives a
\* wall-clock reading; US rule in force since 2007 for America/Los_Angeles
UtcOffset(tz, y, m, d, h, mi) ==
  IF tz = "America/Los_Angeles"
  THEN LET w == WallMinutes(y, m, d, h, mi)
           dstStart == WallMinutes(y, 3, NthSunday(y, 3, 2), 3, 0)
           dstEnd == WallMinutes(y, 11, NthSunday(y, 11, 1), 1, 0)
       IN IF dstStart <= w /\ w < dstEnd THEN 0 - 420 ELSE 0 - 480
  ELSE 0

\* tz.localize(local_time).astimezone(utc), in minutes from the Unix epoch
Localize(tz, y, m, d, h, mi) ==
  WallMinutes(y, m, d, h, mi) - UtcOffset(tz, y, m, d, h, mi)

\* aware_time.isoformat()
IsoFormat(minutes) ==
  LET ymd == OrdToYmd(minutes \div 1440 + EpochOrdinal)
      rest == minutes % 1440
  IN <<ymd[1], ymd[2], ymd[3], rest \div 60, rest % 60>>

\* datetime.fromisoformat(r["time"]), in clock units
FromIsoFormat(t) == WallMinutes(t[1], t[2], t[3], t[4], t[5]) * UnitsPerMinute

\* the instant the process is first started: 2024-02-29T23:57:00Z
StartInstant == WallMinutes(2024, 2, 29, 23, 57) * UnitsPerMinute

Interval == IntervalMinutes * UnitsPerMinute

\* ----------------------------------------------------------------- state
VARIABLES
  clock,          \* datetime.now(utc), in clock units
  remindersFile,  \* contents of reminders.json
  timezonesFile,  \* contents of user_timezones.json
  running,        \* the scheduler has been started
  nextRun,        \* next_run_time of each interval job, 0 = not registered
  tick,           \* the check_reminders coroutine of each job
  nextId,         \* history: number of the next entry to be stored
  attempts,       \* history: delivery attempts made for an entry
  sent,           \* history: messages of an entry that reached the recipient
  corrupt         \* the files whose contents do not parse as JSON (torn write)

vars == <<clock, remindersFile, timezonesFile, running, nextRun, tick,
          nextId, attempts, sent, corrupt>>

\* a check_reminders run: pc is "await" while it is suspended in fetch_user or
\* user.send of reminders[i]; oks is a history field, the ids of the entries
\* this run has sent
IdleTick == [pc |-> "idle", now |-> 0, reminders |-> <<>>, i |-> 0,
             updated |-> <<>>, oks |-> {}]

NoUser == [u \in {} |-> "UTC"]

REMINDERS_FILE == "reminders.json"
USER_TIMEZONES_FILE == "user_timezones.json"

\* variant of load_json_data that returns what it could read of a file that
\* does not parse
load_json_dataLenient(file_path) ==
  IF file_path = USER_TIMEZONES_FILE THEN timezonesFile ELSE remindersFile

\* json.load of a file, or the empty collection of its kind when json.load
\* raises JSONDecodeError.  Of a file that does not parse, remindersFile and
\* timezonesFile hold the whole entries that were written before the write
\* stopped.
load_json_data(file_path) ==
  IF file_path \in corrupt
  THEN IF file_path = USER_TIMEZONES_FILE THEN NoUser ELSE <<>>
  ELSE IF file_path = USER_TIMEZONES_FILE THEN timezonesFile
  ELSE remindersFile

load_reminders == load_json_data(REMINDERS_FILE)
load_user_timezones == load_json_data(USER_TIMEZONES_FILE)

Init ==
  /\ clock = StartInstant
  /\ remindersFile = <<>>
  /\ timezonesFile = NoUser
  /\ running = FALSE
  /\ nextRun = [j \in Jobs |-> 0]
  /\ tick = [j \in Jobs |-> IdleTick]
  /\ nextId = 1
  /\ attempts = [k \in 1..MaxIds |-> 0]
  /\ sent = [k \in 1..MaxIds |-> 0]
  /\ corrupt = {}

Registered == {j \in Jobs : nextRun[j] # 0}

\* the history counters stop at MaxCount, which stands for MaxCount or more
Count(n) == IF n > MaxCount THEN MaxCount ELSE n

\* ------------------------------------------------------------- scheduler
\* on_ready: add_job, then scheduler.start(), which raises
\* SchedulerAlreadyRunningError when the handler runs again after a reconnect
on_ready ==
  /\ Registered # Jobs
  /\ LET j == CHOOSE k \in Jobs \ Registered : \A l \in Jobs \ Registered : k <= l
     IN nextRun' = [nextRun EXCEPT ![j] = clock + Interval]
  /\ running' = TRUE
  /\ UNCHANGED <<clock, remindersFile, timezonesFile, tick, nextId,
                 attempts, sent, corrupt>>

\* variant of IsDue that looks one interval ahead
IsDueEarly(now, r) == now + Interval >= FromIsoFormat(r.time)

\* now >= reminder_time
IsDue(now, r) == now >= FromIsoFormat(r.time)

\* variant of RunLoop that puts each kept entry in front of the list
RECURSIVE RunLoopReversed(_, _, _, _, _)
RunLoopReversed(now, rs, i, upd, oks) ==
  IF i > Len(rs)
  THEN [pc |-> "idle", now |-> now, reminders |-> rs, i |-> i,
        updated |-> upd, oks |-> oks]
  ELSE IF IsDue(now, rs[i])
  THEN [pc |-> "await", now |-> now, reminders |-> rs, i |-> i,
        updated |-> upd, oks |-> oks]
  ELSE RunLoopReversed(now, rs, i + 1, <<rs[i]>> \o upd, oks)

\* the for loop of check_reminders from entry i on, up to the next await or
\* to the end of the list
RECURSIVE RunLoop(_, _, _, _, _)
RunLoop(now, rs, i, upd, oks) ==
  IF i > Len(rs)
  THEN [pc |-> "idle", now |-> now, reminders |-> rs, i |-> i,
        updated |-> upd, oks |-> oks]
  ELSE IF IsDue(now, rs[i])
  THEN [pc |-> "await", now |-> now, reminders |-> rs, i |-> i,
        updated |-> upd, oks |-> oks]
  ELSE RunLoop(now, rs, i + 1, Append(upd, rs[i]), oks)

\* variant of Proceed whose save keeps the entries stored since the load
ProceedMerge(j, t) ==
  IF t.pc = "await"
  THEN /\ tick' = [tick EXCEPT ![j] = t]
       /\ UNCHANGED <<remindersFile, corrupt>>
  ELSE /\ tick' = [tick EXCEPT ![j] = IdleTick]
       /\ corrupt' = corrupt \ {REMINDERS_FILE}
       /\ remindersFile' =
            t.updated \o SelectSeq(remindersFile, LAMBDA r :
                           \A i \in DOMAIN t.reminders : t.reminders[i].id # r.id)

\* the coroutine moves to state t: suspended at an await, or finished, in
\* which case save_reminders(updated_reminders) has run
Proceed(j, t) ==
  IF t.pc = "await"
  THEN /\ tick' = [tick EXCEPT ![j] = t]
       /\ UNCHANGED <<remindersFile, corrupt>>
  ELSE /\ tick' = [tick EXCEPT ![j] = IdleTick]
       /\ corrupt' = corrupt \ {REMINDERS_FILE}
       /\ remindersFile' = t.updated

\* the interval job fires and check_reminders starts
TickStart(j) ==
  /\ j \in Registered
  /\ tick[j].pc = "idle"
  /\ clock >= nextRun[j]
  /\ nextRun' = [nextRun EXCEPT ![j] = @ + Interval]
  /\ Proceed(j, RunLoop(clock, load_reminders, 1, <<>>, {}))
  /\ UNCHANGED <<clock, timezonesFile, running, nextId, attempts,
                 sent>>

\* the interval job fires while its previous run is still suspended: the
\* run is skipped (max_instances is 1)
TickSkip(j) ==
  /\ j \in Registered
  /\ tick[j].pc = "await"
  /\ clock >= nextRun[j]
  /\ nextRun' = [nextRun EXCEPT ![j] = @ + Interval]
  /\ UNCHANGED <<clock, remindersFile, timezonesFile, running, tick, nextId,
                 attempts, sent, corrupt>>

\* variant of TickDeliver that catches every exception, not discord.NotFound
\* alone
TickDeliverCatchAll(j, outcome) ==
  /\ tick[j].pc = "await"
  /\ LET t == tick[j]
         r == t.reminders[t.i]
     IN /\ attempts' = [attempts EXCEPT ![r.id] = Count(@ + 1)]
        /\ sent' = IF outcome = "Ok" THEN [sent EXCEPT ![r.id] = Count(@ + 1)]
                   ELSE sent
        /\ Proceed(j, RunLoop(t.now, t.reminders, t.i + 1, t.updated,
                              IF outcome = "Ok" THEN t.oks \cup {r.id}
                              ELSE t.oks))
  /\ UNCHANGED <<clock, timezonesFile, running, nextRun, nextId>>

\* variant of TickDeliver without the except clause for discord.NotFound
TickDeliverNoCatch(j, outcome) ==
  /\ tick[j].pc = "await"
  /\ LET t == tick[j]
         r == t.reminders[t.i]
     IN /\ attempts' = [attempts EXCEPT ![r.id] = Count(@ + 1)]
        /\ sent' = IF outcome = "Ok" THEN [sent EXCEPT ![r.id] = Count(@ + 1)]
                   ELSE sent
        /\ IF outcome = "Ok"
           THEN Proceed(j, RunLoop(t.now, t.reminders, t.i + 1, t.updated,
                                   t.oks \cup {r.id}))
           ELSE /\ tick' = [tick EXCEPT ![j] = IdleTick]
                /\ UNCHANGED <<remindersFile, corrupt>>
  /\ UNCHANGED <<clock, timezonesFile, running, nextRun, nextId>>

\* bot.fetch_user / user.send of the due entry return or raise
TickDeliver(j, outcome) ==
  /\ tick[j].pc = "await"
  /\ LET t == tick[j]
         r == t.reminders[t.i]
     IN /\ attempts' = [attempts EXCEPT ![r.id] = Count(@ + 1)]
        /\ sent' = IF outcome = "Ok" THEN [sent EXCEPT ![r.id] = Count(@ + 1)]
                   ELSE sent
        /\ IF outcome \in {"Ok", "NotFound"}
           THEN Proceed(j, RunLoop(t.now, t.reminders, t.i + 1, t.updated,
                                   IF outcome = "Ok" THEN t.oks \cup {r.id}
                                   ELSE t.oks))
           ELSE /\ tick' = [tick EXCEPT ![j] = IdleTick]
                /\ UNCHANGED <<remindersFile, corrupt>>
  /\ UNCHANGED <<clock, timezonesFile, running, nextRun, nextId>>

\* -------------------------------------------------------------- commands
\* variant of set_timezone that saves a mapping holding the caller's entry only
set_timezoneFresh(user, timezone_name) ==
  /\ IF timezone_name \notin AllTimezones
     THEN UNCHANGED <<timezonesFile, corrupt>>
     ELSE /\ timezonesFile' = [k \in {StrId(user)} |-> timezone_name]
          /\ corrupt' = corrupt \ {USER_TIMEZONES_FILE}
  /\ UNCHANGED <<clock, remindersFile, running, nextRun, tick, nextId,
                 attempts, sent>>

set_timezone(user, timezone_name) ==
  /\ IF timezone_name \notin AllTimezones
     THEN UNCHANGED <<timezonesFile, corrupt>>
     ELSE /\ timezonesFile' =
               [k \in DOMAIN load_user_timezones \cup {StrId(user)} |->
                  IF k = StrId(user) THEN timezone_name
                  ELSE load_user_timezones[k]]
          /\ corrupt' = corrupt \ {USER_TIMEZONES_FILE}
  /\ UNCHANGED <<clock, remindersFile, running, nextRun, tick, nextId,
                 attempts, sent>>

\* targets = [u for u in [user1, user2, user3] if u is not None]
Targets(user1, user2, user3) ==
  SelectSeq(<<user1, user2, user3>>, LAMBDA u : u # None)

\* variant of NewReminders that stores one entry per distinct target
RECURSIVE NewRemindersDistinct(_, _, _, _, _)
NewRemindersDistinct(targets, author, message, time, id) ==
  IF targets = <<>> THEN <<>>
  ELSE LET rest == SelectSeq(Tail(targets), LAMBDA u : u # Head(targets))
       IN <<[id |-> id, user_id |-> Head(targets),
             author_name |-> DisplayName(author), message |-> message,
             time |-> time]>>
          \o NewRemindersDistinct(rest, author, message, time, id + 1)

\* the reminder dicts appended for the targets, in order
RECURSIVE NewReminders(_, _, _, _, _)
NewReminders(targets, author, message, time, id) ==
  IF targets = <<>> THEN <<>>
  ELSE <<[id |-> id, user_id |-> Head(targets),
          author_name |-> DisplayName(author), message |-> message,
          time |-> time]>>
       \o NewReminders(Tail(targets), author, message, time, id + 1)

\* variant of RememberCheck without the comparison with the current instant
RememberCheckNoPast(user, year, month, day, hour, minute) ==
  IF StrId(user) \notin DOMAIN load_user_timezones THEN "NoTimezoneSet"
  ELSE IF ~ValidDate(year, month, day, hour, minute) THEN "InvalidDate"
  ELSE "Ok"

\* the outcome of the checks of /rm before anything is stored
RememberCheck(user, year, month, day, hour, minute) ==
  IF StrId(user) \notin DOMAIN load_user_timezones THEN "NoTimezoneSet"
  ELSE IF ~ValidDate(year, month, day, hour, minute) THEN "InvalidDate"
  ELSE IF Localize(load_user_timezones[StrId(user)], year, month, day, hour,
                   minute) * UnitsPerMinute < clock
  THEN "TimeInPast"
  ELSE "Ok"

\* variant of StoreReminders that appends to the list as it was before the
\* latest entry was stored
StoreRemindersStale(user, message, year, month, day, hour, minute, targets) ==
  LET aware_time == Localize(load_user_timezones[StrId(user)], year, month,
                             day, hour, minute)
      new == NewReminders(targets, user, message, IsoFormat(aware_time),
                          nextId)
      stale == IF Len(load_reminders) = 0 THEN <<>>
               ELSE SubSeq(load_reminders, 1, Len(load_reminders) - 1)
  IN /\ nextId + Len(targets) - 1 <= MaxIds
     /\ remindersFile' = stale \o new
     /\ corrupt' = corrupt \ {REMINDERS_FILE}
     /\ nextId' = nextId + Len(targets)

\* lines 180-194 of /rm: one entry per target is appended to the loaded list
\* and the list is saved
StoreReminders(user, message, year, month, day, hour, minute, targets) ==
  LET aware_time == Localize(load_user_timezones[StrId(user)], year, month,
                             day, hour, minute)
      new == NewReminders(targets, user, message, IsoFormat(aware_time),
                          nextId)
  IN /\ nextId + Len(targets) - 1 <= MaxIds
     /\ remindersFile' = load_reminders \o new
     /\ corrupt' = corrupt \ {REMINDERS_FILE}
     /\ nextId' = nextId + Len(targets)

\* variant of remember that stores before it compares with the current instant
rememberStoreFirst(user, message, year, month, day, hour, minute, user1, user2, user3) ==
  /\ IF RememberCheck(user, year, month, day, hour, minute)
          \in {"Ok", "TimeInPast"}
     THEN StoreReminders(user, message, year, month, day, hour, minute,
                         Targets(user1, user2, user3))
     ELSE UNCHANGED <<remindersFile, nextId, corrupt>>
  /\ UNCHANGED <<clock, timezonesFile, running, nextRun, tick, attempts, sent>>

\* the /rm command up to its reply; it has no await before the reply
remember(user, message, year, month, day, hour, minute, user1, user2, user3) ==
  /\ IF RememberCheck(user, year, month, day, hour, minute) = "Ok"
     THEN StoreReminders(user, message, year, month, day, hour, minute,
                         Targets(user1, user2, user3))
     ELSE UNCHANGED <<remindersFile, nextId, corrupt>>
  /\ UNCHANGED <<clock, timezonesFile, running, nextRun, tick, attempts, sent>>

\* ----------------------------------------------------------- environment
\* time passes; an interval job whose run time has come fires first
Advance ==
  /\ clock < StartInstant + MaxClock
  /\ \A j \in Registered : nextRun[j] > clock
  /\ clock' = clock + 1
  /\ UNCHANGED <<remindersFile, timezonesFile, running, nextRun, tick,
                 nextId, attempts, sent, corrupt>>

\* the process stops and is started again: the files stay (initialize_json_file
\* leaves an existing file alone), a new scheduler without jobs is built and
\* the suspended coroutines are gone.  The message of a run suspended in
\* user.send may have reached its recipient already (the jobs in D); a and s
\* are the entries of a delivery that ended in the step in which the process
\* stopped.
Stop(D, a, s) ==
  LET n(k) == Cardinality({j \in D : tick[j].reminders[tick[j].i].id = k})
      one(S, k) == IF k \in S THEN 1 ELSE 0
  IN /\ attempts' =
          [k \in 1..MaxIds |-> Count(attempts[k] + n(k) + one(a, k))]
     /\ sent' = [k \in 1..MaxIds |-> Count(sent[k] + n(k) + one(s, k))]
     /\ running' = FALSE
     /\ nextRun' = [j \in Jobs |-> 0]
     /\ tick' = [j \in Jobs |-> IdleTick]

Suspended == {j \in Jobs : tick[j].pc = "await"}

Restart ==
  /\ \E D \in SUBSET Suspended : Stop(D, {}, {})
  /\ UNCHANGED <<clock, remindersFile, timezonesFile, nextId, corrupt>>

\* what a file can hold when the process stops inside save_json_data:
\* open(file_path, 'w') has emptied the file and json.dump has written none
\* or some, never all, of the text of data
TornList(data) ==
  {SubSeq(data, 1, k) :
     k \in 0..(IF Len(data) = 0 THEN 0 ELSE Len(data) - 1)}

TornMapping(data) ==
  {[k \in S |-> data[k]] : S \in (SUBSET DOMAIN data) \ {DOMAIN data}}

\* the process stops inside save_reminders(reminders) of /rm, whatever its
\* message and targets.  The entries of this /rm come last in the text, and
\* of them nothing is kept here: their numbers would be handed out again.
rememberStopped(user, year, month, day, hour, minute) ==
  /\ RememberCheck(user, year, month, day, hour, minute) = "Ok"
  /\ \E k \in 0..Len(load_reminders) :
       remindersFile' = SubSeq(load_reminders, 1, k)
  /\ corrupt' = corrupt \cup {REMINDERS_FILE}
  /\ \E D \in SUBSET Suspended : Stop(D, {}, {})
  /\ UNCHANGED <<clock, timezonesFile, nextId>>

\* the process stops inside save_user_timezones(user_timezones) of
\* /set_timezone
set_timezoneStopped(user, timezone_name) ==
  /\ timezone_name \in AllTimezones
  /\ \E p \in TornMapping([k \in DOMAIN load_user_timezones \cup {StrId(user)}
                             |-> IF k = StrId(user) THEN timezone_name
                                 ELSE load_user_timezones[k]]) :
       timezonesFile' = p
  /\ corrupt' = corrupt \cup {USER_TIMEZONES_FILE}
  /\ \E D \in SUBSET Suspended : Stop(D, {}, {})
  /\ UNCHANGED <<clock, remindersFile, nextId>>

\* the process stops inside save_reminders(updated_reminders) of a
\* check_reminders run that found nothing due
TickStartStopped(j) ==
  /\ j \in Registered
  /\ tick[j].pc = "idle"
  /\ clock >= nextRun[j]
  /\ LET t == RunLoop(clock, load_reminders, 1, <<>>, {})
     IN /\ t.pc = "idle"
        /\ \E p \in TornList(t.updated) : remindersFile' = p
  /\ corrupt' = corrupt \cup {REMINDERS_FILE}
  /\ \E D \in SUBSET Suspended : Stop(D, {}, {})
  /\ UNCHANGED <<clock, timezonesFile, nextId>>

\* the process stops inside save_reminders(updated_reminders) of a
\* check_reminders run whose last delivery has just ended
TickDeliverStopped(j, outcome) ==
  /\ tick[j].pc = "await"
  /\ outcome \in {"Ok", "NotFound"}
  /\ LET t == tick[j]
         r == t.reminders[t.i]
         t2 == RunLoop(t.now, t.reminders, t.i + 1, t.updated, t.oks)
     IN /\ t2.pc = "idle"
        /\ \E p \in TornList(t2.updated) : remindersFile' = p
        /\ \E D \in SUBSET (Suspended \ {j}) :
             Stop(D, {r.id}, IF outcome = "Ok" THEN {r.id} ELSE {})
  /\ corrupt' = corrupt \cup {REMINDERS_FILE}
  /\ UNCHANGED <<clock, timezonesFile, nextId>>

Next ==
  \/ on_ready
  \/ \E j \in Jobs : TickStart(j)
  \/ \E j \in Jobs : TickSkip(j)
  \/ \E j \in Jobs, o \in Outcomes : TickDeliver(j, o)
  \/ \E u \in TzUsers, tz \in TimezoneInputs : set_timezone(u, tz)
  \/ \E u \in Users, msg \in Messages, y \in Years, m \in Months, d \in Days,
        h \in Hours, mi \in Minutes, a \in TargetArgs :
       remember(u, msg, y, m, d, h, mi, a[1], a[2], a[3])
  \/ Advance
  \/ Restart
  \/ \E u \in Users, y \in Years, m \in Months, d \in Days, h \in Hours,
        mi \in Minutes : rememberStopped(u, y, m, d, h, mi)
  \/ \E u \in TzUsers, tz \in TimezoneInputs : set_timezoneStopped(u, tz)
  \/ \E j \in Jobs : TickStartStopped(j)
  \/ \E j \in Jobs, o \in Outcomes : TickDeliverStopped(j, o)

Spec == Init /\ [][Next]_vars

\* The scenario of the delivery test: every delivery succeeds, the process
\* is not restarted, no /rm is handled while a check_reminders run is
\* suspended, and every reminder is asked for two minutes ahead.
ScenarioRemember(user, message, year, month, day, hour, minute, a) ==
  /\ \A j \in Jobs : tick[j].pc = "idle"
  /\ RememberCheck(user, year, month, day, hour, minute) = "Ok" =>
       Localize(load_user_timezones[StrId(user)], year, month, day, hour,
                minute) * UnitsPerMinute = clock + 2 * UnitsPerMinute
  /\ remember(user, message, year, month, day, hour, minute, a[1], a[2], a[3])

ScenarioNext ==
  \/ on_ready
  \/ \E j \in Jobs : TickStart(j)
  \/ \E j \in Jobs : TickSkip(j)
  \/ \E j \in Jobs : TickDeliver(j, "Ok")
  \/ \E u \in TzUsers, tz \in TimezoneInputs : set_timezone(u, tz)
  \/ \E u \in Users, msg \in Messages, y \in Years, m \in Months, d \in Days,
        h \in Hours, mi \in Minutes, a \in TargetArgs :
       ScenarioRemember(u, msg, y, m, d, h, mi, a)
  \/ Advance

ScenarioSpec == Init /\ [][ScenarioNext]_vars

\* The timezone commands of every user, with /rm and the passing of time; the
\* scheduler is not started.
TimezoneNext ==
  \/ \E u \in Users, tz \in TimezoneInputs : set_timezone(u, tz)
  \/ \E u \in Users, tz \in TimezoneInputs : set_timezoneStopped(u, tz)
  \/ \E u \in Users, msg \in Messages, y \in Years, m \in Months, d \in Days,
        h \in Hours, mi \in Minutes, a \in TargetArgs :
       remember(u, msg, y, m, d, h, mi, a[1], a[2], a[3])
  \/ Advance

TimezoneSpec == Init /\ [][TimezoneNext]_vars

\* The calendar check of /rm: a user sets a timezone and asks, with the file
\* empty, for one reminder on a date of the calendar check.
DateRemember(user, message, year, month, day, hour, minute, a) ==
  /\ load_reminders = <<>>
  /\ remember(user, message, year, month, day, hour, minute, a[1], a[2], a[3])

DateNext ==
  \/ \E u \in TzUsers, tz \in TimezoneInputs : set_timezone(u, tz)
  \/ \E u \in Users, msg \in Messages, y \in DateYears, m \in DateMonths,
        d \in DateDays, h \in DateHours, mi \in Minutes, a \in TargetArgs :
       DateRemember(u, msg, y, m, d, h, mi, a)

DateSpec == Init /\ [][DateNext]_vars

TypeOK ==
  /\ clock \in StartInstant..(StartInstant + MaxClock)
  /\ nextId \in 1..(MaxIds + 1)
  /\ \A i \in 1..Len(remindersFile) : remindersFile[i].id \in 1..(nextId - 1)

\* ------------------------------------------------------------ properties
Ids(rs) == {rs[i].id : i \in DOMAIN rs}

Created == 1..(nextId - 1)

\* the entry the run of job j is delivering
Current(j) == tick[j].reminders[tick[j].i]

\* the run of job j ends in this step, the process staying up
TickEnds(j) == tick[j].pc = "await" /\ tick'[j].pc = "idle" /\ nextRun'[j] # 0

\* the run of job j ends in this step with save_reminders
TickSaves(j) ==
  /\ tick'[j].pc = "idle"
  /\ \E o \in {"Ok", "NotFound"} : TickDeliver(j, o)

\* the entries of a list that are not due at now, in their order
Kept(rs, now) == SelectSeq(rs, LAMBDA r : FromIsoFormat(r.time) > now)

\* C1: every stored entry eventually gets a delivery attempt at or after its
\* due instant, for every interleaving of /rm and ticks and across restarts.
\* Finite form: an entry that has had no delivery attempt is still in the
\* store or still ahead of a suspended run in the list that run loaded;
\* an entry for which this fails can never be attempted.
C1_UnattemptedEntryIsKept ==
  \A k \in Created :
    attempts[k] = 0 =>
      \/ k \in Ids(remindersFile)
      \/ \E j \in Jobs :
           /\ tick[j].pc = "await"
           /\ \E i \in tick[j].i..Len(tick[j].reminders) :
                tick[j].reminders[i].id = k

\* C2: no entry is delivered early.  A run that suspends for a delivery has
\* read now from the clock and loaded the stored list in that same step and
\* keeps both while it is suspended; the entry it delivers is an entry of
\* that list whose due instant is at or before that now; and a delivery
\* attempt is only ever counted for the entry a suspended run is delivering.
C2_NoEarlyDelivery ==
  [][/\ \A j \in Jobs :
          tick'[j].pc = "await" =>
            /\ IF tick[j].pc = "await"
               THEN /\ tick'[j].now = tick[j].now
                    /\ tick'[j].reminders = tick[j].reminders
               ELSE /\ tick'[j].now = clock
                    /\ tick'[j].reminders = remindersFile
            /\ tick'[j].i \in DOMAIN tick'[j].reminders
            /\ FromIsoFormat(tick'[j].reminders[tick'[j].i].time)
                 <= tick'[j].now
            /\ tick'[j].now <= clock'
     /\ \A k \in 1..MaxIds :
          attempts'[k] # attempts[k] =>
            \E j \in Jobs : /\ tick[j].pc = "await"
                            /\ Current(j).id = k
                            /\ FromIsoFormat(Current(j).time) <= tick[j].now
    ]_vars

\* a delivery attempt has been made while a stored entry that is not yet due
\* has had none
C2_Witness ==
  \E k \in Created :
    /\ attempts[k] > 0
    /\ \E i \in DOMAIN remindersFile :
         /\ FromIsoFormat(remindersFile[i].time) > clock
         /\ attempts[remindersFile[i].id] = 0

\* C3: on delivery success the entry is dropped: when a run ends, every
\* entry it has sent is absent from the store, whatever happened to the other
\* due entries of the run.
C3_SentEntryDropped ==
  [][\A j \in Jobs :
       TickEnds(j) => tick[j].oks \cap Ids(remindersFile') = {}]_vars

\* C4: when deliveries succeed and no /rm interleaves with a tick, an entry
\* asked for two minutes ahead is, once a tick run that found it due has
\* ended, absent from the store with exactly one delivery attempt made.
C4_DeliveredExactlyOnce ==
  [][\A j \in Jobs :
       TickEnds(j) =>
         \A i \in DOMAIN tick[j].reminders :
           FromIsoFormat(tick[j].reminders[i].time) <= tick[j].now =>
             /\ tick[j].reminders[i].id \notin Ids(remindersFile')
             /\ attempts'[tick[j].reminders[i].id] = 1]_vars

\* C5: a due entry whose recipient is not found is dropped and the run goes
\* on: when a run ends that loaded exactly two due entries a, b of the same
\* due instant, a stored before b, none of them attempted by anything else,
\* and one of the two was sent and the other was not found (either order),
\* both are absent from the store and one message has been sent, to the one
\* that was found.
C5_NotFoundDroppedTickGoesOn ==
  [][\A j \in Jobs, o \in {"Ok", "NotFound"} :
       LET t == tick[j]
           due == {i \in DOMAIN t.reminders :
                     FromIsoFormat(t.reminders[i].time) <= t.now}
       IN (/\ TickDeliver(j, o)
           /\ tick'[j].pc = "idle"
           /\ Cardinality(due) = 2
           /\ t.i \in due)
          =>
          LET ia == CHOOSE i \in due : i # t.i
              a == t.reminders[ia]
              b == t.reminders[t.i]
          IN (/\ a.time = b.time
              /\ attempts[a.id] = 1 /\ attempts[b.id] = 0
              /\ (a.id \in t.oks) # (o = "Ok"))
             =>
             /\ a.id \notin Ids(remindersFile')
             /\ b.id \notin Ids(remindersFile')
             /\ attempts'[a.id] = 1 /\ attempts'[b.id] = 1
             /\ sent'[a.id] + sent'[b.id] = 1
             /\ (sent'[a.id] = 1) = (a.id \in t.oks)]_vars

\* a run has gone on to its second due entry after the first one, of the
\* same due instant, was not found
C5_Witness ==
  \E j \in Jobs :
    /\ tick[j].pc = "await"
    /\ Len(tick[j].reminders) = 2
    /\ tick[j].i = 2
    /\ tick[j].reminders[1].time = tick[j].reminders[2].time
    /\ tick[j].updated = <<>>
    /\ tick[j].oks = {}
    /\ attempts[tick[j].reminders[1].id] = 1
    /\ sent[tick[j].reminders[1].id] = 0
    /\ attempts[tick[j].reminders[2].id] = 0

C7_CreateAppendsOnePerTarget ==
  [][\A u \in Users, msg \in Messages, y \in Years, m \in Months, d \in Days,
        h \in Hours, mi \in Minutes, a \in TargetArgs :
       (/\ nextId' # nextId
        /\ RememberCheck(u, y, m, d, h, mi) = "Ok"
        /\ remember(u, msg, y, m, d, h, mi, a[1], a[2], a[3]))
       =>
       LET targets == SelectSeq(a, LAMBDA x : x # None)
           n == Len(targets)
           old == Len(load_reminders)
           due == Localize(load_user_timezones[StrId(u)], y, m, d, h, mi)
                    * UnitsPerMinute
       IN /\ n \in 1..3
          /\ Len(remindersFile') = old + n
          /\ SubSeq(remindersFile', 1, old) = load_reminders
          /\ REMINDERS_FILE \notin corrupt'
          /\ \A i \in 1..n :
               LET e == remindersFile'[old + i]
               IN /\ e.user_id = targets[i]
                  /\ e.author_name = DisplayName(u)
                  /\ e.message = msg
                  /\ FromIsoFormat(e.time) = due
                  /\ e.time = remindersFile'[old + 1].time]_vars

\* a /rm with three targets, one of them repeated, has stored three entries
C7_Witness ==
  /\ Len(remindersFile) = 3
  /\ nextId = 4
  /\ remindersFile[1].user_id = remindersFile[2].user_id
  /\ remindersFile[3].user_id # remindersFile[1].user_id
  /\ remindersFile[1].time = remindersFile[3].time

\* C8: a /rm that fails leaves both files as they are: in no state can a
\* failing /rm change anything.  A /rm fails with NoTimezoneSet exactly when
\* the requester has no timezone stored, else with InvalidDate exactly when
\* the day is not a day of the month, else with TimeInPast exactly when the
\* resolved instant is before the current one.
C8_FailedCreateChangesNothing ==
  \A u \in Users, y \in Years, m \in Months, d \in Days, h \in Hours,
     mi \in Minutes :
    LET res == RememberCheck(u, y, m, d, h, mi)
        has == StrId(u) \in DOMAIN load_user_timezones
        valid == d <= DaysInMonth(y, m)
    IN /\ (res = "NoTimezoneSet") = ~has
       /\ (res = "InvalidDate") = (has /\ ~valid)
       /\ (res = "TimeInPast") =
            (has /\ valid /\ Localize(load_user_timezones[StrId(u)], y, m, d,
                                      h, mi) * UnitsPerMinute < clock)
       /\ res \in {"NoTimezoneSet", "InvalidDate", "TimeInPast", "Ok"}
       /\ res # "Ok" =>
            \A msg \in Messages, a \in TargetArgs :
              ~ENABLED <<remember(u, msg, y, m, d, h, mi,
                                  a[1], a[2], a[3])>>_vars

\* the store holds an entry and each of the three failures can be asked for
C8_Witness ==
  /\ Len(remindersFile) > 0
  /\ \A f \in {"NoTimezoneSet", "InvalidDate", "TimeInPast"} :
       \E u \in Users, y \in Years, m \in Months, d \in Days, h \in Hours,
          mi \in Minutes : RememberCheck(u, y, m, d, h, mi) = f

\* the entries a step has appended to the store
Appended == {i \in DOMAIN remindersFile' :
               remindersFile'[i].id \in nextId..(nextId' - 1)}

\* C9 as stated: every entry /rm stores has a due instant strictly after the
\* instant that /rm read.
C9_StoredStrictlyAfterNow ==
  [][\A i \in Appended : FromIsoFormat(remindersFile'[i].time) > clock]_vars

\* C9 as amended: every entry /rm stores has a due instant at or after the
\* instant that /rm read; a request whose resolved instant is before it
\* stores nothing.
C9_StoredNotBeforeNow ==
  [][\A i \in Appended : FromIsoFormat(remindersFile'[i].time) >= clock]_vars

\* the store holds an entry that has had no delivery attempt and whose due
\* instant is the current instant
C9_Witness ==
  \E i \in DOMAIN remindersFile :
    /\ FromIsoFormat(remindersFile[i].time) = clock
    /\ attempts[remindersFile[i].id] = 0

\* C10: a run that ends with its save leaves the store equal to the entries
\* of the list it loaded that were not due at its now, unchanged and in their
\* order; a run that finds no due entry saves in the step that loaded and
\* leaves the stored list as it was.
C10_TickSavesKept ==
  [][\A j \in Jobs :
       /\ (tick[j].pc = "await" /\ TickSaves(j)) =>
            remindersFile' = Kept(tick[j].reminders, tick[j].now)
       /\ TickStart(j) =>
            IF Kept(load_reminders, clock) = load_reminders
            THEN remindersFile' = load_reminders /\ tick'[j].pc = "idle"
            ELSE remindersFile' = remindersFile /\ tick'[j].pc = "await"]_vars

\* a run has removed an entry it delivered and has kept two
C10_Witness ==
  /\ Len(remindersFile) >= 2
  /\ \A j \in Jobs : tick[j].pc = "idle"
  /\ \E k \in Created :
       /\ attempts[k] = 1
       /\ k < remindersFile[1].id
       /\ k \notin Ids(remindersFile)

\* C11: the scheduler is a single recurring task started on the ready event:
\* before the first on_ready no check_reminders job is registered and no run
\* is under way; once the scheduler has been started exactly one
\* check_reminders job is registered, however often on_ready has run, and two
\* runs are never suspended at the same time.
C11_SingleTickTask ==
  /\ ~running => (Registered = {} /\ \A j \in Jobs : tick[j].pc = "idle")
  /\ running => Cardinality(Registered) = 1
  /\ \A j1, j2 \in Jobs :
       (tick[j1].pc = "await" /\ tick[j2].pc = "await") => j1 = j2

\* C13: loading a file that does not parse gives the empty collection of its
\* kind, so a check_reminders run or a /rm on a reminder file that does not
\* parse goes on as if nothing were stored: the run finds nothing due and
\* saves the empty list, the /rm saves its own entries alone, and after
\* either save the file parses again.
C13_CorruptLoadsEmpty ==
  /\ [](/\ REMINDERS_FILE \in corrupt => load_reminders = <<>>
        /\ USER_TIMEZONES_FILE \in corrupt => load_user_timezones = NoUser)
  /\ [][(REMINDERS_FILE \in corrupt) =>
          (/\ \A j \in Jobs :
                TickStart(j) => (/\ tick'[j].pc = "idle"
                                 /\ remindersFile' = <<>>
                                 /\ REMINDERS_FILE \notin corrupt')
           /\ (nextId' # nextId) =>
                (/\ Len(remindersFile') = nextId' - nextId
                 /\ \A i \in DOMAIN remindersFile' :
                      remindersFile'[i].id = nextId + i - 1
                 /\ REMINDERS_FILE \notin corrupt'))
       ]_vars

\* the reminder file does not parse, whole entries are left in it, and a
\* check_reminders run is about to start on it
C13_Witness ==
  /\ REMINDERS_FILE \in corrupt
  /\ Len(remindersFile) > 0
  /\ \E j \in Registered : tick[j].pc = "idle" /\ clock >= nextRun[j]

\* C14: save_json_data replaces the stored list atomically: when the process
\* stops inside a save, a load after the restart gives the complete list of
\* before the save or the complete list that was being saved.
C14_SaveIsAtomic ==
  [][/\ \A u \in Users, y \in Years, m \in Months, d \in Days, h \in Hours,
          mi \in Minutes :
          rememberStopped(u, y, m, d, h, mi) =>
            \/ load_reminders' = load_reminders
            \/ /\ Len(load_reminders') > Len(load_reminders)
               /\ SubSeq(load_reminders', 1, Len(load_reminders))
                    = load_reminders
     /\ \A j \in Jobs :
          TickStartStopped(j) =>
            load_reminders' \in {load_reminders, Kept(load_reminders, clock)}
     /\ \A j \in Jobs, o \in {"Ok", "NotFound"} :
          TickDeliverStopped(j, o) =>
            load_reminders' \in
              {load_reminders, Kept(tick[j].reminders, tick[j].now)}]_vars

\* C12: each user has at most one timezone preference and the last valid
\* /set_timezone wins.  The loaded mapping gives every user it knows one
\* valid name; a /set_timezone with a valid name makes that name the caller's
\* preference and leaves every other user's preference, or lack of one, as
\* it was; one with a name that is not in all_timezones leaves the file as
\* it is; and nothing but a /set_timezone with a valid name, completed or
\* stopped inside its save, changes the loaded mapping.
C12_LastValidSetWins ==
  /\ [](\A k \in DOMAIN load_user_timezones :
          /\ k \in {StrId(u) : u \in Users}
          /\ load_user_timezones[k] \in AllTimezones)
  /\ [][/\ \A u \in Users, tz \in TimezoneInputs :
             set_timezone(u, tz) =>
               IF tz \in AllTimezones
               THEN /\ DOMAIN load_user_timezones' =
                         DOMAIN load_user_timezones \cup {StrId(u)}
                    /\ load_user_timezones'[StrId(u)] = tz
                    /\ \A k \in DOMAIN load_user_timezones \ {StrId(u)} :
                         load_user_timezones'[k] = load_user_timezones[k]
               ELSE /\ timezonesFile' = timezonesFile
                    /\ corrupt' = corrupt
        /\ (load_user_timezones' # load_user_timezones) =>
             \E u \in Users, tz \in AllTimezones :
               set_timezone(u, tz) \/ set_timezoneStopped(u, tz)
       ]_vars

\* both users have a preference, and they differ
C12_Witness ==
  /\ DOMAIN load_user_timezones = {StrId(1), StrId(2)}
  /\ load_user_timezones[StrId(1)] # load_user_timezones[StrId(2)]

\* the dates of the calendar check whose day is not a day of their month,
\* written out month by month
ExceedsMonth(y, m, d) ==
  \/ m \in {4, 6, 9, 11} /\ d = 31
  \/ m = 2 /\ d >= 30
  \/ m = 2 /\ d = 29 /\ y \in {2025, 2100}

\* C15: for a requester with a timezone set, a /rm whose day is past the end
\* of its month in its year fails with InvalidDate and stores nothing, and a
\* /rm whose day is a day of its month does not fail with InvalidDate:
\* February 30 fails in every year, April 31 fails, February 29 fails in 2025
\* and 2100 and not in 2024 and 2400.
C15_DayPastMonthEndIsInvalid ==
  /\ [](\A u \in Users, y \in DateYears, m \in DateMonths, d \in DateDays,
           h \in DateHours, mi \in Minutes :
          StrId(u) \in DOMAIN load_user_timezones =>
            ((RememberCheck(u, y, m, d, h, mi) = "InvalidDate")
               = ExceedsMonth(y, m, d)))
  /\ [][(nextId' # nextId \/ remindersFile' # remindersFile) =>
          \A u \in Users, y \in DateYears, m \in DateMonths, d \in DateDays :
            ExceedsMonth(y, m, d) =>
              \A msg \in Messages, h \in DateHours, mi \in Minutes,
                 a \in TargetArgs :
                ~DateRemember(u, msg, y, m, d, h, mi, a)
       ]_vars

\* a reminder for a February 29 is stored, by a requester for whom February
\* 30 of that year and February 29 of a common year are invalid dates
C15_Witness ==
  /\ Len(remindersFile) > 0
  /\ remindersFile[1].time[2] = 2 /\ remindersFile[1].time[3] = 29
  /\ \E u \in Users :
       /\ RememberCheck(u, remindersFile[1].time[1], 2, 30, 15, 59)
            = "InvalidDate"
       /\ RememberCheck(u, 2100, 2, 29, 15, 59) = "InvalidDate"

\* C16: every due entry of the list a run loaded gets a delivery attempt in
\* that run, whatever the outcome of the due entries before it: when a run
\* ends, the process staying up, no due entry of its list lies behind the
\* entry whose delivery ended it.
C16_EveryDueEntryAttempted ==
  [][\A j \in Jobs :
       TickEnds(j) =>
         \A i \in DOMAIN tick[j].reminders :
           IsDue(tick[j].now, tick[j].reminders[i]) => i <= tick[j].i]_vars

\* C17: a due entry whose delivery fails with an error other than
\* discord.NotFound is dropped: it is absent from the store when the run
\* that attempted it has ended.
C17_OtherErrorEntryDropped ==
  [][\A j \in Jobs :
       TickDeliver(j, "HTTPException") =>
         Current(j).id \notin Ids(load_reminders')]_vars

\* C19: when a delivery raises an error other than discord.NotFound the run
\* ends there without saving.  A suspended run has written nothing; the step
\* in which the error is raised leaves the reminder file as it is and ends
\* the run; so when nothing else has written the file since the run loaded
\* it, the file still holds the whole loaded list, the entries this run has
\* already sent included, and each of them is due for the next run.
C19_OtherErrorLeavesStore ==
  [][\A j \in Jobs :
       /\ (tick'[j].pc = "await" /\ (TickStart(j) \/ \E o \in Outcomes :
                                                       TickDeliver(j, o))) =>
            UNCHANGED <<remindersFile, corrupt>>
       /\ TickDeliver(j, "HTTPException") =>
            /\ UNCHANGED <<remindersFile, corrupt>>
            /\ tick'[j] = IdleTick
            /\ load_reminders = tick[j].reminders =>
                 /\ load_reminders' = tick[j].reminders
                 /\ \A i \in DOMAIN load_reminders' :
                      load_reminders'[i].id \in tick[j].oks \cup {Current(j).id}
                        => IsDue(clock', load_reminders'[i])]_vars

\* a run has sent the first entry of the list it loaded and is suspended in
\* the delivery of the second, and the file still holds that list
C19_Witness ==
  \E j \in Jobs :
    /\ tick[j].pc = "await"
    /\ tick[j].i = 2
    /\ tick[j].oks = {tick[j].reminders[1].id}
    /\ load_reminders = tick[j].reminders

\* every record of a list
Entries(rs) == {rs[i] : i \in DOMAIN rs}

\* the copies of stored entries the program holds: the file and the lists
\* of the suspended runs
Copies ==
  Entries(load_reminders) \cup UNION {Entries(tick[j].reminders) : j \in Jobs}

\* C18: stored entries are immutable and the reminder store changes by a /rm
\* appending and by a check_reminders run removing, nothing else: all copies
\* of an entry agree in every field; /set_timezone leaves the reminder file
\* as it is; and a step that changes what load_reminders returns is a /rm
\* that appends its entries to it or a check_reminders run that leaves
\* entries of it, in their order.
C18_EntriesImmutable ==
  /\ [](\A r1, r2 \in Copies : r1.id = r2.id => r1 = r2)
  /\ [][/\ \A u \in Users, tz \in TimezoneInputs :
             set_timezone(u, tz) => remindersFile' = remindersFile
        /\ (load_reminders' # load_reminders) =>
             \/ /\ nextId' # nextId
                /\ Len(load_reminders') > Len(load_reminders)
                /\ SubSeq(load_reminders', 1, Len(load_reminders))
                     = load_reminders
             \/ /\ \E j \in Jobs :
                     TickStart(j) \/ \E o \in Outcomes : TickDeliver(j, o)
                /\ load_reminders' =
                     SelectSeq(load_reminders,
                               LAMBDA r : r \in Entries(load_reminders'))
       ]_vars

\* C20: /rm loads, appends and saves without a suspension point, so the
\* entries of every successful /rm are in the store as long as no
\* check_reminders run has saved: the store holds every entry ever stored,
\* in the order in which they were stored.
C20_AllCreatesKept ==
  /\ Len(load_reminders) = nextId - 1
  /\ \A i \in DOMAIN load_reminders : load_reminders[i].id = i

\* the store holds the entries of two /rm of different authors
C20_Witness ==
  \E i, k \in DOMAIN load_reminders :
    load_reminders[i].author_name # load_reminders[k].author_name

\* the snapshot and the now of the check_reminders run of job j that takes
\* the step: the list in the file for a run that starts, the list it loaded
\* for a run that was suspended
Snapshot(j) ==
  IF tick[j].pc = "await" THEN tick[j].reminders ELSE load_reminders

SnapshotNow(j) == IF tick[j].pc = "await" THEN tick[j].now ELSE clock

\* the step is a step of the check_reminders run of job j that reaches
\* save_reminders, whether the save completes or not
TickReachesSave(j) ==
  \/ TickStart(j) /\ tick'[j].pc = "idle"
  \/ TickStartStopped(j)
  \/ \E o \in {"Ok", "NotFound"} :
       \/ TickDeliver(j, o) /\ tick'[j].pc = "idle"
       \/ TickDeliverStopped(j, o)

\* C21: a check_reminders run that finds nothing due loads and saves without
\* a suspension point, so an entry can be lost to a run only when the list
\* that run loaded holds a due entry: when a step of a run that reaches
\* save_reminders takes an entry that never had a delivery attempt out of the
\* store, the snapshot of that run holds an entry that is due at its now.
C21_OnlyDueTickLosesEntries ==
  [][\A j \in Jobs :
       (/\ TickReachesSave(j)
        /\ \E r \in Entries(load_reminders) :
             /\ r \notin Entries(load_reminders')
             /\ attempts'[r.id] = 0)
       => \E i \in DOMAIN Snapshot(j) : IsDue(SnapshotNow(j), Snapshot(j)[i])
    ]_vars

====
